---- MODULE Spec2Model ----
(***************************************************************************)
(* Model of src/Automation/LinkedIn/app.py: the LinkedInBot class          *)
(* (validate_credentials, login, close) and the top-level main().          *)
(*                                                                         *)
(* Strings whose characters matter (the identifier, the password) are      *)
(* sequences of one-character strings.  The browser driver is an external  *)
(* collaborator: every driver call takes its outcome (normal return,       *)
(* element absent, fault) as an input drawn with \E.                       *)
(***************************************************************************)
EXTENDS Integers, Sequences, FiniteSets, TLC

VARIABLES
    USERNAME,      \* main: os.getenv('LINKEDIN_USERNAME', ...)
    PASSWORD,      \* main: os.getenv('LINKEDIN_PASSWORD', ...)
    bot,           \* the caller's local `bot`: "None" or "LinkedInBot"
    self,          \* the LinkedInBot's fields: username, password, driver
    pc,            \* position of the caller (main, or a client of the class)
    lpc,           \* position inside LinkedInBot.login ("idle" when not running)
    loginResult,   \* value returned by the last login() call, "none" before
    login_success, \* main's local `login_success`, "unset" before assignment
    exc,           \* exception caught by login()'s handler, "none" if none
    callerExc,     \* exception that reached the caller, "none" if none
    valid,         \* value returned by the last validate_credentials() call
    session,       \* the browser session: "none", "open" or "released"
    url,           \* the browser's current URL (a sequence of path tokens)
    challenge,     \* whether the element with id 'challenge' is present
    elapsed,       \* polls slept in the running WebDriverWait.until
    waited,        \* how the outcome wait ended: "none", "satisfied", "timeout"
    trace,         \* driver calls that returned normally during this login()
    log,           \* records written through `logger`
    closeCalls,    \* number of LinkedInBot.close() invocations
    quitCalls,     \* number of driver.quit() invocations
    loginCalls     \* number of LinkedInBot.login() invocations

vars == <<USERNAME, PASSWORD, bot, self, pc, lpc, loginResult, login_success, exc,
          callerExc, valid, session, url, challenge, elapsed, waited, trace,
          log, closeCalls, quitCalls, loginCalls>>

(***************************************************************************)
(* Bounds of the model.                                                    *)
(***************************************************************************)
MaxIdLen == 6      \* identifiers enumerated exhaustively up to this length
MaxDigits == 15    \* longest run of digits in the phone-shaped identifiers
MaxPwLen == 9      \* longest password
MaxCalls == 3      \* method calls a client makes on one agent

(***************************************************************************)
(* Program constants.                                                      *)
(***************************************************************************)
PhoneMinDigits == 10
PhoneMaxDigits == 14
TldMinLetters == 2
MinPasswordLen == 8
UsernameWaitTimeout == 10
OutcomeWaitTimeout == 20

(***************************************************************************)
(* validate_credentials: the regular expression                            *)
(*   ^(\+?\d{10,14}|[a-zA-Z0-9._%+-]+@[a-zA-Z0-9.-]+\.[a-zA-Z]{2,})$        *)
(* applied with re.match, then the length test on the password.            *)
(***************************************************************************)
Digits == {"0", "1", "2", "3", "4", "5", "6", "7", "8", "9"}

Letters ==
    {"a", "b", "c", "d", "e", "f", "g", "h", "i", "j", "k", "l", "m",
     "n", "o", "p", "q", "r", "s", "t", "u", "v", "w", "x", "y", "z",
     "A", "B", "C", "D", "E", "F", "G", "H", "I", "J", "K", "L", "M",
     "N", "O", "P", "Q", "R", "S", "T", "U", "V", "W", "X", "Y", "Z"}

\* [a-zA-Z0-9._%+-]
LocalChars == Letters \cup Digits \cup {".", "_", "%", "+", "-"}

\* [a-zA-Z0-9.-]
DomainChars == Letters \cup Digits \cup {".", "-"}

AllIn(s, from, to, class) == \A k \in from..to : s[k] \in class

\* \+?\d{10,14} consuming the whole of s
PhoneMatch(s) ==
    LET body == IF Len(s) > 0 /\ s[1] = "+" THEN Tail(s) ELSE s
    IN  /\ Len(body) >= PhoneMinDigits
        /\ Len(body) <= PhoneMaxDigits
        /\ AllIn(body, 1, Len(body), Digits)

\* [a-zA-Z0-9._%+-]+@[a-zA-Z0-9.-]+\.[a-zA-Z]{2,} consuming the whole of s:
\* some '@' at i and some '.' at j split s into local part, domain and TLD.
EmailMatch(s) ==
    \E i \in 2..Len(s) : \E j \in (i + 2)..Len(s) :
        /\ s[i] = "@"
        /\ s[j] = "."
        /\ AllIn(s, 1, i - 1, LocalChars)
        /\ AllIn(s, i + 1, j - 1, DomainChars)
        /\ Len(s) - j >= TldMinLetters
        /\ AllIn(s, j + 1, Len(s), Letters)

\* Where '$' can match in s: at the end, and just before a newline that is
\* the last character (Python's re without re.MULTILINE).
DollarEnds(s) ==
    {Len(s)} \cup (IF Len(s) > 0 /\ s[Len(s)] = "\n" THEN {Len(s) - 1} ELSE {})

\* re.match(email_phone_pattern, s) is not None
re_match(s) ==
    \E e \in DollarEnds(s) :
        LET t == SubSeq(s, 1, e) IN PhoneMatch(t) \/ EmailMatch(t)

\* not (len(self.password) < 8)
PasswordLongEnough(p) == Len(p) >= MinPasswordLen

\* The error validate_credentials logs, "none" when it returns True.
ValidationError(u, p) ==
    IF ~re_match(u) THEN "Invalid email or phone number format"
    ELSE IF ~PasswordLongEnough(p) THEN "Password too short"
    ELSE "none"

\* Python's True and False, kept apart from "none" and "unset".
PyBool(b) == IF b THEN "True" ELSE "False"

validate_credentials(u, p) == PyBool(ValidationError(u, p) = "none")

LogRec(level, msg) == [level |-> level, msg |-> msg]

\* What validate_credentials appends to the log.
ValidationLog(u, p) ==
    IF ValidationError(u, p) = "none" THEN <<>>
    ELSE <<LogRec("ERROR", ValidationError(u, p))>>

(***************************************************************************)
(* The browser as the program sees it.  A URL is the sequence of its path  *)
(* tokens; `'feed' in current_url` looks for the token.                    *)
(***************************************************************************)
StartUrl == <<"data:">>
LoginUrl == <<"https:", "www.linkedin.com", "login">>
FeedUrl == <<"https:", "www.linkedin.com", "feed">>
CheckpointUrl == <<"https:", "www.linkedin.com", "checkpoint", "challenge">>
SiteUrls == {LoginUrl, FeedUrl, CheckpointUrl}

UrlContains(u, segment) == \E k \in 1..Len(u) : u[k] = segment

\* A driver call on an open session returns or faults; on a session that
\* is not open it can only fault.
DriverOutcomes == IF session = "open" THEN {"ok", "fault"} ELSE {"fault"}

\* find_element / presence_of_element_located also report an absent element.
FindOutcomes == IF session = "open" THEN {"ok", "absent", "fault"} ELSE {"fault"}

(***************************************************************************)
(* The condition handed to WebDriverWait(driver, 20).until at lines        *)
(* 105-108: `EC.url_contains('feed') or EC.presence_of_element_located(..)`*)
(* is Python's `or` of two condition objects.                              *)
(***************************************************************************)
UrlContainsFeed == [kind |-> "url_contains", arg |-> "feed"]
PresenceOfChallenge == [kind |-> "presence_of_element_located", arg |-> "challenge"]

\* bool() of a condition object: a function object is always truthy.
Truthy(cond) == cond.kind # "None"

\* a or b: a if a is truthy, else b.
PyOr(a, b) == IF Truthy(a) THEN a ELSE b

\* Variant: the two conditions combined with EC.any_of.
OutcomeConditionAnyOf == [kind |-> "any_of", arg |-> "feed"]

OutcomeCondition == PyOr(UrlContainsFeed, PresenceOfChallenge)

\* method(driver) for a condition, on the page as it is now.
EvalCondition(cond, u, ch) ==
    CASE cond.kind = "url_contains" -> UrlContains(u, cond.arg)
      [] cond.kind = "presence_of_element_located" -> ch
      [] cond.kind = "any_of" -> UrlContains(u, cond.arg) \/ ch

(***************************************************************************)
(* LinkedInBot.login, one action per driver interaction.                   *)
(***************************************************************************)
callerVars == <<USERNAME, PASSWORD, bot, self, pc, login_success, callerExc,
                session, closeCalls, quitCalls, loginCalls>>

\* Variant: no handler, the exception leaves login().
LoginExceptPropagates(e) ==
    /\ lpc' = "raised"
    /\ loginResult' = loginResult
    /\ exc' = e
    /\ log' = log

\* Variant: the handler logs the verification warning instead of the error.
LoginExceptWarns(e) ==
    /\ lpc' = "done"
    /\ loginResult' = "False"
    /\ exc' = e
    /\ log' = Append(log, LogRec("WARNING", "Login may require additional verification"))

\* except Exception as e: logger.error(f"Login failed: {e}"); return False
LoginExcept(e) ==
    /\ lpc' = "done"
    /\ loginResult' = "False"
    /\ exc' = e
    /\ log' = Append(log, LogRec("ERROR", "Login failed"))

\* A statement of the try block raises e.
LoginRaise(e) ==
    /\ LoginExcept(e)
    /\ UNCHANGED <<valid, url, challenge, elapsed, waited, trace>>

\* A driver call returns normally and login goes on to `next`, logging
\* the lines in `infos`.
LoginAdvance(next, call, infos) ==
    /\ lpc' = next
    /\ trace' = Append(trace, call)
    /\ log' = log \o infos
    /\ UNCHANGED <<loginResult, exc, valid, url, challenge, elapsed, waited>>

\* Variant: the result of validate_credentials is not acted on.
LoginValidateIgnored ==
    /\ lpc = "validate"
    /\ valid' = validate_credentials(self.username, self.password)
    /\ log' = log \o ValidationLog(self.username, self.password)
    /\ lpc' = "get"
    /\ UNCHANGED <<loginResult, exc, url, challenge, elapsed, waited, trace>>
    /\ UNCHANGED callerVars

\* if not self.validate_credentials(): return False
LoginValidate ==
    /\ lpc = "validate"
    /\ valid' = validate_credentials(self.username, self.password)
    /\ log' = log \o ValidationLog(self.username, self.password)
    /\ IF valid' = "True" THEN lpc' = "get" /\ loginResult' = loginResult
                          ELSE lpc' = "done" /\ loginResult' = "False"
    /\ UNCHANGED <<exc, url, challenge, elapsed, waited, trace>>
    /\ UNCHANGED callerVars

\* self.driver.get('https://www.linkedin.com/login')
LoginNavigate ==
    /\ lpc = "get"
    /\ \E o \in DriverOutcomes :
        IF o = "ok"
        THEN /\ lpc' = "wait_username"
             /\ url' = LoginUrl
             /\ challenge' = FALSE
             /\ elapsed' = 0
             /\ trace' = Append(trace, "get")
             /\ log' = Append(log, LogRec("INFO", "Navigated to LinkedIn login page"))
             /\ UNCHANGED <<loginResult, exc, valid, waited>>
        ELSE LoginRaise("WebDriverException")
    /\ UNCHANGED callerVars

\* WebDriverWait(self.driver, 10).until(presence_of_element_located(session_key))
LoginWaitUsername ==
    /\ lpc = "wait_username"
    /\ \E o \in FindOutcomes :
        CASE o = "ok" -> LoginAdvance("username_clear", "wait session_key", <<>>)
          [] o = "absent" ->
                IF elapsed < UsernameWaitTimeout
                THEN /\ elapsed' = elapsed + 1
                     /\ UNCHANGED <<lpc, loginResult, exc, valid, url, challenge,
                                    waited, trace, log>>
                ELSE LoginRaise("TimeoutException")
          [] o = "fault" -> LoginRaise("WebDriverException")
    /\ UNCHANGED callerVars

\* username_field.clear()
LoginClearUsername ==
    /\ lpc = "username_clear"
    /\ \E o \in DriverOutcomes :
        IF o = "ok" THEN LoginAdvance("username_send", "clear session_key", <<>>)
        ELSE LoginRaise("WebDriverException")
    /\ UNCHANGED callerVars

\* username_field.send_keys(self.username)
LoginSendUsername ==
    /\ lpc = "username_send"
    /\ \E o \in DriverOutcomes :
        IF o = "ok"
        THEN LoginAdvance("find_password", "send_keys session_key",
                          <<LogRec("INFO", "Username entered")>>)
        ELSE LoginRaise("WebDriverException")
    /\ UNCHANGED callerVars

\* Variant: the password field is looked up without waiting for the
\* username field first.
LoginFindPasswordEarly ==
    /\ lpc \in {"wait_username", "find_password"}
    /\ LoginAdvance("password_clear", "find session_password", <<>>)
    /\ UNCHANGED callerVars

\* password_field = self.driver.find_element(By.NAME, 'session_password')
LoginFindPassword ==
    /\ lpc = "find_password"
    /\ \E o \in FindOutcomes :
        CASE o = "ok" -> LoginAdvance("password_clear", "find session_password", <<>>)
          [] o = "absent" -> LoginRaise("NoSuchElementException")
          [] o = "fault" -> LoginRaise("WebDriverException")
    /\ UNCHANGED callerVars

\* password_field.clear()
LoginClearPassword ==
    /\ lpc = "password_clear"
    /\ \E o \in DriverOutcomes :
        IF o = "ok" THEN LoginAdvance("password_send", "clear session_password", <<>>)
        ELSE LoginRaise("WebDriverException")
    /\ UNCHANGED callerVars

\* password_field.send_keys(self.password)
LoginSendPassword ==
    /\ lpc = "password_send"
    /\ \E o \in DriverOutcomes :
        IF o = "ok"
        THEN LoginAdvance("find_button", "send_keys session_password",
                          <<LogRec("INFO", "Password entered")>>)
        ELSE LoginRaise("WebDriverException")
    /\ UNCHANGED callerVars

\* login_button = self.driver.find_element(By.XPATH, ...)
LoginFindButton ==
    /\ lpc = "find_button"
    /\ \E o \in FindOutcomes :
        CASE o = "ok" -> LoginAdvance("click", "find login-submit", <<>>)
          [] o = "absent" -> LoginRaise("NoSuchElementException")
          [] o = "fault" -> LoginRaise("WebDriverException")
    /\ UNCHANGED callerVars

\* login_button.click()
LoginClick ==
    /\ lpc = "click"
    /\ \E o \in DriverOutcomes :
        IF o = "ok"
        THEN /\ lpc' = "wait_outcome"
             /\ elapsed' = 0
             /\ trace' = Append(trace, "click login-submit")
             /\ log' = Append(log, LogRec("INFO", "Sign in button clicked"))
             /\ UNCHANGED <<loginResult, exc, valid, url, challenge, waited>>
        ELSE LoginRaise("WebDriverException")
    /\ UNCHANGED callerVars

\* The target site answers the submitted form: the page moves to another
\* URL and the challenge element appears or goes.
SiteChanges ==
    /\ lpc \in {"wait_outcome", "read_url"}
    /\ session = "open"
    /\ \E u \in SiteUrls, ch \in BOOLEAN :
        /\ <<u, ch>> # <<url, challenge>>
        /\ url' = u
        /\ challenge' = ch
    /\ UNCHANGED <<lpc, loginResult, exc, valid, elapsed, waited, trace, log>>
    /\ UNCHANGED callerVars

\* WebDriverWait(self.driver, 20).until(<OutcomeCondition>): one poll.
LoginWaitOutcome ==
    /\ lpc = "wait_outcome"
    /\ \E o \in DriverOutcomes :
        IF o = "ok"
        THEN IF EvalCondition(OutcomeCondition, url, challenge)
             THEN /\ lpc' = "read_url"
                  /\ waited' = "satisfied"
                  /\ trace' = Append(trace, "wait outcome")
                  /\ UNCHANGED <<loginResult, exc, valid, url, challenge, elapsed, log>>
             ELSE IF elapsed < OutcomeWaitTimeout
                  THEN /\ elapsed' = elapsed + 1
                       /\ UNCHANGED <<lpc, loginResult, exc, valid, url, challenge,
                                      waited, trace, log>>
                  ELSE /\ waited' = "timeout"
                       /\ LoginExcept("TimeoutException")
                       /\ UNCHANGED <<valid, url, challenge, elapsed, trace>>
        ELSE LoginRaise("WebDriverException")
    /\ UNCHANGED callerVars

\* if 'feed' in self.driver.current_url: ... return True / else: ... return False
LoginReadUrl ==
    /\ lpc = "read_url"
    /\ \E o \in DriverOutcomes :
        IF o = "ok"
        THEN /\ lpc' = "done"
             /\ trace' = Append(trace, "current_url")
             /\ IF UrlContains(url, "feed")
                THEN /\ log' = Append(log, LogRec("INFO", "Successfully logged in!"))
                     /\ loginResult' = "True"
                ELSE /\ log' = Append(log, LogRec("WARNING",
                                      "Login may require additional verification"))
                     /\ loginResult' = "False"
             /\ UNCHANGED <<exc, valid, url, challenge, elapsed, waited>>
        ELSE LoginRaise("WebDriverException")
    /\ UNCHANGED callerVars

LoginStep ==
    \/ LoginValidate
    \/ LoginNavigate
    \/ LoginWaitUsername
    \/ LoginClearUsername
    \/ LoginSendUsername
    \/ LoginFindPassword
    \/ LoginClearPassword
    \/ LoginSendPassword
    \/ LoginFindButton
    \/ LoginClick
    \/ LoginWaitOutcome
    \/ LoginReadUrl

\* The caller invokes bot.login(): the method starts at its first statement.
LoginEnter ==
    /\ lpc' = "validate"
    /\ loginResult' = "none"
    /\ exc' = "none"
    /\ valid' = "none"
    /\ elapsed' = 0
    /\ waited' = "none"
    /\ trace' = <<>>
    /\ loginCalls' = loginCalls + 1
    /\ UNCHANGED <<url, challenge, log>>

(***************************************************************************)
(* LinkedInBot.__init__ and LinkedInBot.close.                             *)
(***************************************************************************)
\* self.username = ...; self.password = ...; self.driver = webdriver.Chrome(...)
\* returned normally: the object exists and owns a running browser.
ConstructOk ==
    /\ bot' = "LinkedInBot"
    /\ self' = [username |-> USERNAME, password |-> PASSWORD, driver |-> "WebDriver"]
    /\ session' = "open"
    /\ url' = StartUrl
    /\ callerExc' = "none"

\* driver.quit() returns or faults; a fault leaves it open whether the
\* browser was terminated.
QuitOutcomes ==
    IF session = "open" THEN {"ok", "fault_released", "fault_unchanged"}
    ELSE {"ok", "fault_unchanged"}

SessionAfterQuit(o) ==
    IF o \in {"ok", "fault_released"} THEN "released" ELSE session

\* Variant: close() only logs.
closeWithoutQuit(o) ==
    /\ closeCalls' = closeCalls + 1
    /\ log' = Append(log, LogRec("INFO", "Browser session closed"))
    /\ callerExc' = "none"
    /\ UNCHANGED <<quitCalls, session>>

\* if self.driver: self.driver.quit()
\* logger.info("Browser session closed")
close(o) ==
    LET quits == self.driver # "None"
        raised == quits /\ o # "ok"
    IN  /\ closeCalls' = closeCalls + 1
        /\ quitCalls' = IF quits THEN quitCalls + 1 ELSE quitCalls
        /\ session' = IF quits THEN SessionAfterQuit(o) ELSE session
        /\ log' = IF raised THEN log
                  ELSE Append(log, LogRec("INFO", "Browser session closed"))
        /\ callerExc' = IF raised THEN "WebDriverException" ELSE "none"

(***************************************************************************)
(* main(): lines 130-151.                                                  *)
(***************************************************************************)
\* bot = LinkedInBot(USERNAME, PASSWORD), or the except clause when the
\* constructor raises.
MainConstruct ==
    /\ pc = "m_start"
    /\ \E launched \in BOOLEAN :
        IF launched
        THEN /\ ConstructOk
             /\ pc' = "m_login"
             /\ UNCHANGED log
        ELSE /\ callerExc' = "LaunchError"
             /\ log' = Append(log, LogRec("ERROR", "Unexpected error"))
             /\ pc' = "m_finally"
             /\ UNCHANGED <<bot, self, session, url>>
    /\ UNCHANGED <<USERNAME, PASSWORD, lpc, loginResult, login_success, exc, valid,
                   challenge, elapsed, waited, trace, closeCalls, quitCalls,
                   loginCalls>>

\* login_success = bot.login(): the call.
MainCallLogin ==
    /\ pc = "m_login"
    /\ LoginEnter
    /\ pc' = "m_in_login"
    /\ callerExc' = "none"
    /\ UNCHANGED <<USERNAME, PASSWORD, bot, self, login_success, session,
                   closeCalls, quitCalls>>

\* login_success = bot.login(): the return, and the if/else on it.
MainLoginReturned ==
    /\ pc = "m_in_login"
    /\ lpc = "done"
    /\ lpc' = "idle"
    /\ login_success' = loginResult
    /\ IF loginResult = "True"
       THEN /\ pc' = "m_sleep"
            /\ UNCHANGED log
       ELSE /\ pc' = "m_finally"
            /\ log' = Append(log, LogRec("WARNING",
                   "Login unsuccessful or requires additional verification"))
    /\ UNCHANGED <<USERNAME, PASSWORD, bot, self, loginResult, exc, callerExc, valid,
                   session, url, challenge, elapsed, waited, trace, closeCalls,
                   quitCalls, loginCalls>>

\* time.sleep(10)
MainSleep ==
    /\ pc = "m_sleep"
    /\ pc' = "m_finally"
    /\ UNCHANGED <<USERNAME, PASSWORD, bot, self, lpc, loginResult, login_success,
                   exc, callerExc, valid, session, url, challenge, elapsed, waited,
                   trace, log, closeCalls, quitCalls, loginCalls>>

\* Variant: the agent is closed only after a successful login.
FinallyBodySkipsOnFailure(o) ==
    IF bot # "None" /\ login_success = "True"
    THEN /\ close(o)
         /\ pc' = IF callerExc' = "none" THEN "m_done" ELSE "m_raised"
    ELSE /\ pc' = "m_done"
         /\ UNCHANGED <<callerExc, session, log, closeCalls, quitCalls>>

\* What the finally clause does with `bot`, for a quit() outcome o; an
\* exception raised by close() leaves main.
FinallyBody(o) ==
    IF bot # "None"
    THEN /\ close(o)
         /\ pc' = IF callerExc' = "none" THEN "m_done" ELSE "m_raised"
    ELSE /\ pc' = "m_done"
         /\ UNCHANGED <<callerExc, session, log, closeCalls, quitCalls>>

\* finally: if bot: bot.close()
MainFinally ==
    /\ pc = "m_finally"
    /\ \E o \in QuitOutcomes : FinallyBody(o)
    /\ UNCHANGED <<USERNAME, PASSWORD, bot, self, lpc, loginResult, login_success,
                   exc, valid, url, challenge, elapsed, waited, trace, loginCalls>>

(***************************************************************************)
(* A client of the class other than main: it constructs one agent and      *)
(* calls login() and close() on it in any order.                           *)
(***************************************************************************)
ClientConstruct ==
    /\ pc = "c_start"
    /\ \E launched \in BOOLEAN :
        IF launched
        THEN /\ ConstructOk
             /\ pc' = "c_idle"
        ELSE /\ callerExc' = "LaunchError"
             /\ pc' = "c_done"
             /\ UNCHANGED <<bot, self, session, url>>
    /\ UNCHANGED <<USERNAME, PASSWORD, lpc, loginResult, login_success, exc, valid,
                   challenge, elapsed, waited, trace, log, closeCalls, quitCalls,
                   loginCalls>>

ClientCallLogin ==
    /\ pc = "c_idle"
    /\ loginCalls + closeCalls < MaxCalls
    /\ LoginEnter
    /\ pc' = "c_in_login"
    /\ callerExc' = "none"
    /\ UNCHANGED <<USERNAME, PASSWORD, bot, self, login_success, session,
                   closeCalls, quitCalls>>

ClientLoginReturned ==
    /\ pc = "c_in_login"
    /\ lpc = "done"
    /\ lpc' = "idle"
    /\ pc' = "c_idle"
    /\ login_success' = loginResult
    /\ UNCHANGED <<USERNAME, PASSWORD, bot, self, loginResult, exc, callerExc, valid,
                   session, url, challenge, elapsed, waited, trace, log, closeCalls,
                   quitCalls, loginCalls>>

ClientCallClose ==
    /\ pc = "c_idle"
    /\ loginCalls + closeCalls < MaxCalls
    /\ \E o \in QuitOutcomes : close(o)
    /\ UNCHANGED <<USERNAME, PASSWORD, bot, self, pc, lpc, loginResult, login_success,
                   exc, valid, url, challenge, elapsed, waited, trace, loginCalls>>

\* A client that only asks for the credentials to be validated.
ValidateCall ==
    /\ pc = "v_idle"
    /\ pc' = "v_done"
    /\ valid' = validate_credentials(self.username, self.password)
    /\ log' = log \o ValidationLog(self.username, self.password)
    /\ UNCHANGED <<USERNAME, PASSWORD, bot, self, lpc, loginResult, login_success,
                   exc, callerExc, session, url, challenge, elapsed, waited, trace,
                   closeCalls, quitCalls, loginCalls>>

(***************************************************************************)
(* Inputs.                                                                 *)
(***************************************************************************)
Chars(n, c) == [k \in 1..n |-> c]

SeqsUpTo(S, n) == UNION {[1..k -> S] : k \in 0..n}

\* The placeholder defaults of main, lines 132-133.
DefaultUsername ==
    <<"y", "o", "u", "r", "_", "e", "m", "a", "i", "l", "_", "o", "r", "_",
      "p", "h", "o", "n", "e">>
DefaultPassword ==
    <<"y", "o", "u", "r", "_", "p", "a", "s", "s", "w", "o", "r", "d">>

\* Values the two environment variables take in the runs of main.
EnvUsernames ==
    {DefaultUsername,
     <<"u", "@", "e", ".", "c", "o">>,
     <<"+">> \o Chars(PhoneMinDigits, "1")}
EnvPasswords == {DefaultPassword, Chars(MinPasswordLen - 1, "x")}

\* Identifiers validate_credentials is tried on: every string over a small
\* alphabet up to MaxIdLen, and the phone-shaped ones around 10..14 digits.
IdAlphabet == {"a", "1", "@", ".", "\n"}
PhoneShaped ==
    {pre \o Chars(n, "1") \o suf :
        pre \in {<<>>, <<"+">>}, n \in 0..MaxDigits,
        suf \in {<<>>, <<"\n">>, <<"a">>}}
Identifiers == SeqsUpTo(IdAlphabet, MaxIdLen) \cup PhoneShaped
Passwords == {Chars(n, "x") : n \in (MinPasswordLen - 2)..MaxPwLen}

(***************************************************************************)
(* Specifications.                                                         *)
(***************************************************************************)
InitCommon ==
    /\ lpc = "idle"
    /\ loginResult = "none"
    /\ login_success = "unset"
    /\ exc = "none"
    /\ callerExc = "none"
    /\ valid = "none"
    /\ challenge = FALSE
    /\ elapsed = 0
    /\ waited = "none"
    /\ trace = <<>>
    /\ log = <<>>
    /\ closeCalls = 0
    /\ quitCalls = 0
    /\ loginCalls = 0

NotConstructed ==
    /\ bot = "None"
    /\ self = [username |-> <<>>, password |-> <<>>, driver |-> "None"]
    /\ session = "none"
    /\ url = StartUrl

\* main() starts.
Init ==
    /\ USERNAME \in EnvUsernames
    /\ PASSWORD \in EnvPasswords
    /\ NotConstructed
    /\ pc = "m_start"
    /\ InitCommon

Next ==
    \/ MainConstruct
    \/ MainCallLogin
    \/ LoginStep
    \/ SiteChanges
    \/ MainLoginReturned
    \/ MainSleep
    \/ MainFinally

Spec == Init /\ [][Next]_vars

\* A client starts.
InitAgent ==
    /\ USERNAME \in EnvUsernames
    /\ PASSWORD \in EnvPasswords
    /\ NotConstructed
    /\ pc = "c_start"
    /\ InitCommon

NextAgent ==
    \/ ClientConstruct
    \/ ClientCallLogin
    \/ LoginStep
    \/ SiteChanges
    \/ ClientLoginReturned
    \/ ClientCallClose

SpecAgent == InitAgent /\ [][NextAgent]_vars

\* An agent holding any of the credentials, about to be validated.
InitValidate ==
    /\ USERNAME \in Identifiers
    /\ PASSWORD \in Passwords
    /\ bot = "LinkedInBot"
    /\ self = [username |-> USERNAME, password |-> PASSWORD, driver |-> "WebDriver"]
    /\ session = "open"
    /\ url = StartUrl
    /\ pc = "v_idle"
    /\ InitCommon

NextValidate == ValidateCall

SpecValidate == InitValidate /\ [][NextValidate]_vars

(***************************************************************************)
(* Properties.                                                             *)
(***************************************************************************)
CountLog(level) == Cardinality({k \in DOMAIN log : log[k].level = level})

Logged(level, msg) == \E k \in DOMAIN log : log[k] = LogRec(level, msg)

MainEnded == pc \in {"m_done", "m_raised"}

\* The driver calls of a login() that returns True, in order.
FullChain ==
    <<"get", "wait session_key", "clear session_key", "send_keys session_key",
      "find session_password", "clear session_password",
      "send_keys session_password", "find login-submit", "click login-submit",
      "wait outcome", "current_url">>

IsPrefix(s, t) == Len(s) <= Len(t) /\ \A k \in 1..Len(s) : s[k] = t[k]

\* C1: login() never raises; whenever a driver call of login() faults
\* (navigation, a wait, a lookup, the click, the URL read), login() returns
\* False and has written exactly one ERROR line.
C1_LoginNeverRaises ==
    /\ lpc # "raised"
    /\ (lpc = "done" /\ exc # "none") =>
            (loginResult = "False" /\ CountLog("ERROR") = 1)

\* A fault of the click was caught, after both fields were filled.
C1_Witness ==
    /\ lpc = "done"
    /\ exc = "WebDriverException"
    /\ trace = SubSeq(FullChain, 1, 8)

C3_CloseExactlyOnce ==
    /\ closeCalls <= 1
    /\ MainEnded => closeCalls = (IF bot # "None" THEN 1 ELSE 0)

\* main ended through the branch where login() caught a fault.
C3_Witness ==
    /\ MainEnded
    /\ bot # "None"
    /\ exc # "none"
    /\ closeCalls = 1

\* The identifiers the claim describes: the whole string is an optional '+'
\* and 10 to 14 digits, or local part, '@', domain, '.', 2 or more letters.
ClaimedAccepts(u, p) ==
    /\ PhoneMatch(u) \/ EmailMatch(u)
    /\ Len(p) >= MinPasswordLen

\* C4 as stated: validate_credentials() returns True exactly for the
\* identifiers of the phone or email shape with a secret of length >= 8,
\* and leaves the agent and the session as they were.
C4_Original ==
    pc = "v_done" =>
        /\ valid = PyBool(ClaimedAccepts(self.username, self.password))
        /\ self = [username |-> USERNAME, password |-> PASSWORD, driver |-> "WebDriver"]
        /\ session = "open"

\* C5 as stated: an outcome wait that was satisfied makes login() return
\* True; one that timed out makes it return False with the "requires
\* additional verification" warning logged.
C5_Original ==
    lpc = "done" =>
        /\ waited = "satisfied" => loginResult = "True"
        /\ waited = "timeout" =>
              /\ loginResult = "False"
              /\ Logged("WARNING", "Login may require additional verification")

\* C5 amended: an outcome wait that was satisfied makes login() return True
\* if the URL read again without fault still contains 'feed'; one that
\* timed out makes login() return False through the handler, which logs the
\* ERROR line "Login failed"; the warning is logged only when the wait was
\* satisfied and the URL read again no longer contains 'feed'.
C5_OutcomeClassified ==
    lpc = "done" =>
        /\ (waited = "satisfied" /\ exc = "none" /\ UrlContains(url, "feed"))
              => loginResult = "True"
        /\ waited = "timeout" =>
              /\ loginResult = "False"
              /\ exc = "TimeoutException"
              /\ log[Len(log)] = LogRec("ERROR", "Login failed")
        /\ Logged("WARNING", "Login may require additional verification")
              <=> (waited = "satisfied" /\ exc = "none" /\ ~UrlContains(url, "feed"))

\* The outcome wait ran to its timeout.
C5_Witness ==
    /\ lpc = "done"
    /\ waited = "timeout"
    /\ elapsed = OutcomeWaitTimeout

\* C6: once validate_credentials() has returned False, login() has returned
\* False with no driver call made and the page untouched, and when it
\* returns the session is still open and close() has not been called.
C6_RejectedBeforeBrowser ==
    valid = "False" =>
        /\ lpc \in {"done", "idle"}
        /\ loginResult = "False"
        /\ exc = "none"
        /\ trace = <<>>
        /\ url = StartUrl
        /\ lpc = "done" => (session = "open" /\ quitCalls = 0 /\ closeCalls = 0)

\* login() has returned after a rejected validation.
C6_Witness ==
    /\ lpc = "done"
    /\ valid = "False"
    /\ Logged("ERROR", "Password too short")

\* C7 as stated: no fault leaves main, and a fault that escaped construction
\* or close() has been logged once by the outermost handler when main ends.
C7_Original ==
    /\ pc # "m_raised"
    /\ (pc = "m_done" /\ callerExc # "none") =>
            Cardinality({k \in DOMAIN log :
                            log[k] = LogRec("ERROR", "Unexpected error")}) = 1

\* C8 as stated: a close() that follows an earlier close() on the same
\* agent does not call quit() again and does not raise.
C8_Original ==
    [][(closeCalls >= 1 /\ closeCalls' = closeCalls + 1)
          => (quitCalls' = quitCalls /\ callerExc' = "none")]_vars

C10_TrueOnlyAfterChain ==
    /\ IsPrefix(trace, FullChain)
    /\ loginResult = "True" =>
          /\ valid = "True"
          /\ trace = FullChain
          /\ waited = "satisfied"
          /\ exc = "none"
          /\ UrlContains(url, "feed")

\* login() has returned True.
C10_Witness ==
    /\ lpc = "done"
    /\ loginResult = "True"
====
